---- MODULE Spec2Model ----
(***************************************************************************)
(* Model of GEToIsmrmrd::GERawConverter (src/src/GERawConverter.cpp):      *)
(* session construction and strategy selection, stylesheet configuration,  *)
(* the projection of the raw header into the intermediate document         *)
(* (ge_header_to_xml), the XSLT transform of getIsmrmrdXMLHeader with its   *)
(* native handles, and the dispatch of getAcquisitions.                    *)
(*                                                                         *)
(* The vendor SDK, libxml2 and libxslt are external: whether a field read  *)
(* or an engine call succeeds is a nondeterministic input.  XMLWriter.h is *)
(* not among the sources; the writer is modelled from the design document  *)
(* (a frame stack with an implicit root frame).                            *)
(***************************************************************************)
EXTENDS Integers, Sequences, FiniteSets, TLC

\* ------------------------------------------------------------- bounds ---
MaxSlices == 1
MaxExtraFramesTop == 2
MaxExtraFramesBottom == 1
MaxControlCount == 1
MaxView == 1

\* NumSlices values of the raw header; 29 is the design document's example.
SliceCounts == (0..MaxSlices) \cup {29}
\* ExtraFramesTop / ExtraFramesBottom values of the EPI processing control.
ExtraFramesTopCounts == 0..MaxExtraFramesTop
ExtraFramesBottomCounts == 0..MaxExtraFramesBottom
\* AvailableControlCount values of an archive storage; 300 is the example.
ControlCounts == (0..MaxControlCount) \cup {300}
ViewNumbers == 0..MaxView

\* Plugin class names handed to the constructor.
ClassNames ==
  {"GenericConverter", "NIH2dfastConverter", "NIHepiConverter",
   "NoSuchConverter", "genericconverter", "NIHepiConverterX", ""}

\* Stylesheet texts handed to useStylesheetString.
Sheets == {"", "<xsl:stylesheet/>"}

\* Stylesheet files: the text the stream yields; a file that cannot be
\* opened yields a stream with nothing to read.
SheetFiles == {"epi.xsl", "missing.xsl"}
FileText(filename) == IF filename = "epi.xsl" THEN "<xsl:stylesheet/>" ELSE ""

\* ------------------------------------------------------ pure helpers ----
\* C++ integer division: the quotient is truncated towards zero.
CDiv(a, b) ==
  IF (a >= 0) = (b > 0) \/ a = 0
    THEN (IF a >= 0 THEN a ELSE -a) \div (IF b > 0 THEN b ELSE -b)
    ELSE -((IF a >= 0 THEN a ELSE -a) \div (IF b > 0 THEN b ELSE -b))

Digit(d) ==
  CASE d = 0 -> "0" [] d = 1 -> "1" [] d = 2 -> "2" [] d = 3 -> "3"
    [] d = 4 -> "4" [] d = 5 -> "5" [] d = 6 -> "6" [] d = 7 -> "7"
    [] d = 8 -> "8" [] d = 9 -> "9"

RECURSIVE FormatNat(_)
FormatNat(n) == IF n < 10 THEN Digit(n) ELSE FormatNat(n \div 10) \o Digit(n % 10)

\* printf "%d" of an int.
FormatD(n) == IF n < 0 THEN "-" \o FormatNat(-n) ELSE FormatNat(n)

RECURSIVE PadNat(_, _)
PadNat(n, width) == IF width = 0 THEN "" ELSE PadNat(n \div 10, width - 1) \o Digit(n % 10)

\* printf "%u" of an int: the 32 bits read as unsigned, so a negative n is
\* printed as 4294967296 + n (computed in two decimal halves, 4294 | 967296).
FormatU(n) ==
  IF n >= 0 THEN FormatNat(n)
  ELSE FormatNat(4294 + ((967296 + n) \div 1000000)) \o PadNat((967296 + n) % 1000000, 6)

\* addBooleanElement: the fixed lowercase token pair.
FormatBool(b) == IF b THEN "true" ELSE "false"

\* --------------------------------------------------- strategy choice ----
NoConverter == "none"

SelectConverterFallback(classname) ==
  IF classname = "NIH2dfastConverter" THEN "NIH2dfastConverter"
  ELSE IF classname = "NIHepiConverter" THEN "NIHepiConverter"
  ELSE "GenericConverter"

\* The if / else-if chain on classname.compare(...): the strategy object, or
\* NoConverter for the final else branch.
SelectConverter(classname) ==
  IF classname = "GenericConverter" THEN "GenericConverter"
  ELSE IF classname = "NIH2dfastConverter" THEN "NIH2dfastConverter"
  ELSE IF classname = "NIHepiConverter" THEN "NIHepiConverter"
  ELSE NoConverter

\* ------------------------------------------------- container handles ----
NullHandle == [kind |-> "Null", count |-> 0]
ArchiveHandle(count) == [kind |-> "ScanArchive", count |-> count]
PfileHandle == [kind |-> "Pfile", count |-> 0]

\* Raw files the constructor can be pointed at: the container kind found by
\* IsArchiveFilePath, the header fields the model follows, and for an archive
\* the number of control packets it holds.  Fields that only the EPI branch
\* reads are kept at 0 for a header that is not EPI, and a P-file has no
\* control-packet count.
RawFiles ==
  { [isArchive |-> a, IsEpi |-> e, NumSlices |-> s,
     ExtraFramesTop |-> t, ExtraFramesBottom |-> b, controlCount |-> c] :
      a \in BOOLEAN, e \in BOOLEAN, s \in SliceCounts,
      t \in ExtraFramesTopCounts, b \in ExtraFramesBottomCounts, c \in ControlCounts }

NormalRawFile(f) ==
  /\ (~f.IsEpi => f.ExtraFramesTop = 0 /\ f.ExtraFramesBottom = 0)
  /\ (~(f.isArchive /\ f.IsEpi) => f.controlCount = 0)

\* The design document's end-to-end scenario: 29 slices, ExtraFramesTop 2,
\* ExtraFramesBottom 1, and 300 control packets in an archive.
ScenarioFile(f) ==
  /\ f.NumSlices = 29
  /\ (f.IsEpi => f.ExtraFramesTop = 2 /\ f.ExtraFramesBottom = 1)
  /\ (f.isArchive /\ f.IsEpi => f.controlCount = 300)

\* The constructor's arguments: every raw file with the default strategy and
\* with the names that select none, the scenario's files with every name.
ConstructorInputs ==
  { in \in RawFiles \X ClassNames :
      /\ NormalRawFile(in[1])
      /\ in[2] \notin {"NIH2dfastConverter", "NIHepiConverter"} \/ ScenarioFile(in[1]) }

NoFile ==
  [isArchive |-> FALSE, IsEpi |-> FALSE, NumSlices |-> 0,
   ExtraFramesTop |-> 0, ExtraFramesBottom |-> 0, controlCount |-> 0]

NoSession ==
  [rawObjectType_ |-> "none", scanArchive_ |-> NullHandle, pfile_ |-> NullHandle,
   lxData_ |-> NoFile, converter_ |-> NoConverter, stylesheet_ |-> ""]

\* The constructor's container branch: which handle is created and which
\* stays default-constructed (null).
OpenContainer(file) ==
  IF file.isArchive
    THEN [rawObjectType_ |-> "SCAN_ARCHIVE_RAW_TYPE",
          scanArchive_ |-> ArchiveHandle(file.controlCount),
          pfile_ |-> NullHandle]
    ELSE [rawObjectType_ |-> "PFILE_RAW_TYPE",
          scanArchive_ |-> NullHandle,
          pfile_ |-> PfileHandle]

\* --------------------------------------------------------- the state ----
VARIABLES
  proc,       \* "running", "exited" (exit(EXIT_FAILURE)) or "crashed"
  classname,  \* the class name the constructor was called with
  session,    \* the GERawConverter object's members, NoSession before it exists
  lastAcq,    \* the call getAcquisitions made on the strategy
  pc,         \* position of the caller's current call on the session
  ppos,       \* position of ge_header_to_xml in ProjectionOps
  wstate,     \* XMLWriter: "Empty", "Open" or "Closed"
  wstack,     \* XMLWriter: the frame stack, root frame first
  wdoc,       \* XMLWriter: the tokens written so far
  locals,     \* ge_header_to_xml: its locals, and the field whose read threw
  gehdr,      \* getIsmrmrdXMLHeader: ge_raw_file_header
  stages,     \* the transform stages started by the current call, in order
  acq,        \* native handle -> times obtained from the engine in this call
  rel,        \* native handle -> times released in this call
  error,      \* the message of the exception the call raised, "" if none
  output      \* the header text the call returned, NoOutput if none

vars ==
  <<proc, classname, session, lastAcq, pc, ppos, wstate, wstack, wdoc,
    locals, gehdr, stages, acq, rel, error, output>>

writerVars == <<wstate, wstack, wdoc>>
sessionVars == <<proc, classname, session, lastAcq>>
transformVars == <<stages, acq, rel, output>>

Handles == {"stylesheet_doc", "sheet", "pfile_doc", "result", "output"}
NoHandles == [h \in Handles |-> 0]

Root == "#document"
NoOutput == [present |-> FALSE, sheet |-> "", doc |-> <<>>]
NoLocals ==
  [archiveRead |-> FALSE, archive |-> NullHandle, controlCount |-> 0,
   ref_views |-> 0, num_volumes |-> 0, failedField |-> ""]
NoAcq == [path |-> "none", handle |-> NullHandle, view |-> 0, converter |-> NoConverter]

Init ==
  /\ proc = "running"
  /\ classname = ""
  /\ session = NoSession
  /\ lastAcq = NoAcq
  /\ pc = "idle"
  /\ ppos = 0
  /\ wstate = "Empty"
  /\ wstack = <<>>
  /\ wdoc = <<>>
  /\ locals = NoLocals
  /\ gehdr = <<>>
  /\ stages = <<>>
  /\ acq = NoHandles
  /\ rel = NoHandles
  /\ error = ""
  /\ output = NoOutput

HasSession == proc = "running" /\ session.rawObjectType_ # "none"
\* The caller is between two calls on the session (single-threaded use).
BetweenCalls == HasSession /\ pc = "idle"

callVars == <<pc, ppos, wstate, wstack, wdoc, locals, gehdr, stages, acq, rel, error, output>>

\* ------------------------------------------------------ construction ----
\* The members of a constructed session.
NewSession(file, name) ==
  LET c == OpenContainer(file) IN
  [rawObjectType_ |-> c.rawObjectType_, scanArchive_ |-> c.scanArchive_,
   pfile_ |-> c.pfile_, lxData_ |-> file,
   converter_ |-> SelectConverter(name), stylesheet_ |-> ""]

\* GERawConverter::GERawConverter: the container is opened first, then the
\* strategy is chosen; the final else branch ends the process with
\* exit(EXIT_FAILURE), so the object never comes to exist.
Construct(file, name) ==
  /\ proc = "running"
  /\ session.rawObjectType_ = "none"
  /\ classname' = name
  /\ IF SelectConverter(name) = NoConverter
       THEN /\ proc' = "exited"
            /\ session' = session
       ELSE /\ proc' = proc
            /\ session' = NewSession(file, name)
  /\ UNCHANGED <<lastAcq, callVars>>

\* -------------------------------------------------------- stylesheet ----
useStylesheetString(sheet) ==
  /\ BetweenCalls
  /\ session' = [session EXCEPT !.stylesheet_ = sheet]
  /\ UNCHANGED <<proc, classname, lastAcq, callVars>>

\* Reads the whole stream into a string and hands it to useStylesheetString.
useStylesheetStream(text) == useStylesheetString(text)

\* Opens the file as a stream and hands it to useStylesheetStream.
useStylesheetFilename(filename) == useStylesheetStream(FileText(filename))

\* ------------------------------------------------------ acquisitions ----
AcquisitionPathPfileOnly(rawObjectType) == "Pfile"

\* getAcquisitions: the branch on rawObjectType_.
AcquisitionPath(rawObjectType) ==
  IF rawObjectType = "SCAN_ARCHIVE_RAW_TYPE" THEN "ScanArchive" ELSE "Pfile"

getAcquisitions(view_num) ==
  /\ BetweenCalls
  /\ pc' = "acquired"
  /\ lastAcq' =
       [path |-> AcquisitionPath(session.rawObjectType_),
        handle |-> IF AcquisitionPath(session.rawObjectType_) = "ScanArchive"
                     THEN session.scanArchive_ ELSE session.pfile_,
        view |-> view_num,
        converter |-> session.converter_]
  /\ UNCHANGED <<proc, classname, session, ppos, writerVars, locals, gehdr,
                 transformVars, error>>

\* ------------------------------------------------- header projection ----
Op(k, name, fmt, src) == [k |-> k, name |-> name, fmt |-> fmt, src |-> src]

\* The statements of ge_header_to_xml in program order: writer calls with the
\* element name, the format pattern and the field each one reads.
ProjectionOps ==
  << Op("startDocument", "", "", ""),
     Op("startElement", "Header", "", ""),
     Op("bool", "is3DAcquisition", "", "Is3DAcquisition"),
     Op("bool", "isCalibration", "", "IsCalibration"),
     Op("bool", "isAssetCalibration", "", "AssetCalibration"),
     Op("fmt", "SliceCount", "%d", "NumSlices"),
     Op("fmt", "ChannelCount", "%d", "NumChannels"),
     Op("load", "", "", "DicomSeries"),
     Op("startElement", "Series", "", ""),
     Op("fmt", "Number", "%d", "SeriesNumber"),
     Op("fmt", "UID", "%s", "SeriesUID"),
     Op("fmt", "Description", "%s", "SeriesDescription"),
     Op("load", "", "", "DicomStudy"),
     Op("startElement", "Study", "", ""),
     Op("fmt", "Number", "%u", "ExamNumber"),
     Op("fmt", "UID", "%s", "StudyUID"),
     Op("load", "", "", "DicomPatient"),
     Op("startElement", "Patient", "", ""),
     Op("fmt", "Name", "%s", "PatientName"),
     Op("fmt", "ID", "%s", "PatientID"),
     Op("load", "", "", "DicomEquipment"),
     Op("startElement", "Equipment", "", ""),
     Op("fmt", "Manufacturer", "%s", "Manufacturer"),
     Op("fmt", "CoilConfigUID", "%u", "CoilConfigUID"),
     Op("load", "", "", "SliceTable"),
     Op("startElement", "Image", "", ""),
     Op("fmt", "EchoTime", "%s", "EchoTime"),
     Op("fmt", "RepetitionTime", "%s", "RepetitionTime"),
     Op("epiBranch", "", "", "IsEpi"),
     Op("epiControl", "", "", "EpiControlSource"),
     Op("archiveStorage", "", "", "scanArchive_"),
     Op("refViews", "", "", "ExtraFramesTop+ExtraFramesBottom"),
     Op("numVolumes", "", "", "AvailableControlCount"),
     Op("startElement", "epiParameters", "", ""),
     Op("bool", "isEpiRefScanIntegrated", "", "IntegratedReferenceScan"),
     Op("bool", "MultibandEnabled", "", "MultibandEnabled"),
     Op("fmt", "ExtraFramesTop", "%d", "ExtraFramesTop"),
     Op("fmt", "AcquiredYRes", "%d", "AcquiredYRes"),
     Op("fmt", "ExtraFramesBottom", "%d", "ExtraFramesBottom"),
     Op("fmt", "NumRefViews", "%d", "ref_views"),
     Op("fmt", "num_volumes", "%d", "num_volumes"),
     Op("endElement", "epiParameters", "", ""),
     Op("endElement", "Image", "", ""),
     Op("endDocument", "", "", ""),
     Op("getXML", "", "", "") >>

\* The statement after the if (lxData->IsEpi()) block.
AfterEpiBlock ==
  1 + CHOOSE i \in 1..Len(ProjectionOps) :
        ProjectionOps[i].k = "endElement" /\ ProjectionOps[i].name = "epiParameters"

\* The local variables ref_views and num_volumes are not read from the header.
LocalSources == {"ref_views", "num_volumes"}

\* Statements that read the raw header, a processing control or a container.
ReadsField(op) ==
  \/ op.k \in {"bool", "load", "epiBranch", "epiControl", "archiveStorage",
               "refViews", "numVolumes"}
  \/ op.k = "fmt" /\ op.src \notin LocalSources

\* Header fields the model does not follow have one sample value each.
IntField(src) ==
  CASE src = "NumSlices" -> session.lxData_.NumSlices
    [] src = "ExtraFramesTop" -> session.lxData_.ExtraFramesTop
    [] src = "ExtraFramesBottom" -> session.lxData_.ExtraFramesBottom
    [] src = "ref_views" -> locals.ref_views
    [] src = "num_volumes" -> locals.num_volumes
    [] src = "NumChannels" -> 8
    [] src = "SeriesNumber" -> 3
    [] src = "ExamNumber" -> 1234
    [] src = "AcquiredYRes" -> 64
    [] OTHER -> 7

FormattedValue(op) ==
  IF op.fmt = "%d" THEN FormatD(IntField(op.src))
  ELSE IF op.fmt = "%u" THEN FormatU(IntField(op.src))
  ELSE op.src

Token(t, name, text) == [t |-> t, name |-> name, text |-> text]

RefViewsTopOnly(top, bottom) == top

\* int ref_views = ExtraFramesTop + ExtraFramesBottom
RefViews(top, bottom) == top + bottom

NumVolumesRoundedUp(count, slices) == CDiv(count + slices, slices + 1)

\* int num_volumes = AvailableControlCount() / (NumSlices + 1)
NumVolumes(count, slices) == CDiv(count, slices + 1)

ProjectionCatchBestEffort(what, doc) == [thrown |-> FALSE, what |-> "", text |-> doc]

\* The catch blocks of ge_header_to_xml log and rethrow: the caller gets the
\* exception and no text.
ProjectionCatch(what, doc) == [thrown |-> TRUE, what |-> what, text |-> <<>>]

HeaderErrorPrefix == "Failed to generate GE header from lxData and processingControl: "

AtOp(k) == pc = "projecting" /\ proc = "running" /\ ProjectionOps[ppos].k = k
CurOp == ProjectionOps[ppos]

\* ge_header_to_xml has ended with result r (its XMLWriter is destroyed);
\* getIsmrmrdXMLHeader wraps an exception, rejects an empty text, and
\* otherwise goes on to the transform.
ProjectionExit(r) ==
  /\ wstate' = "Empty"
  /\ wstack' = <<>>
  /\ wdoc' = <<>>
  /\ ppos' = ppos
  /\ IF r.thrown
       THEN /\ pc' = "failed"
            /\ error' = HeaderErrorPrefix \o r.what
            /\ gehdr' = <<>>
       ELSE IF r.text = <<>>
         THEN /\ pc' = "failed"
              /\ error' = HeaderErrorPrefix \o "Generated GE header is empty."
              /\ gehdr' = <<>>
         ELSE /\ pc' = "xmlParseSheet"
              /\ error' = ""
              /\ gehdr' = r.text
  /\ UNCHANGED <<sessionVars, transformVars>>

Advance == ppos' = ppos + 1 /\ UNCHANGED <<sessionVars, pc, gehdr, transformVars, error>>

\* A read of the raw abstraction throws: the exception leaves ge_header_to_xml.
FieldReadFails ==
  /\ pc = "projecting" /\ proc = "running"
  /\ ReadsField(CurOp)
  /\ locals' = [locals EXCEPT !.failedField = CurOp.src]
  /\ ProjectionExit(ProjectionCatch("MissingField: " \o CurOp.src, wdoc))

WriterStartDocument ==
  /\ AtOp("startDocument")
  /\ wstate' = "Open"
  /\ wstack' = <<Root>>
  /\ wdoc' = <<>>
  /\ UNCHANGED locals
  /\ Advance

WriterStartElement ==
  /\ AtOp("startElement")
  /\ wstack' = Append(wstack, CurOp.name)
  /\ wdoc' = Append(wdoc, Token("open", CurOp.name, ""))
  /\ UNCHANGED <<wstate, locals>>
  /\ Advance

AddBooleanElement ==
  /\ AtOp("bool")
  /\ wdoc' = Append(wdoc, Token("elem", CurOp.name, FormatBool(FALSE)))
  /\ UNCHANGED <<wstate, wstack, locals>>
  /\ Advance

FormatElement ==
  /\ AtOp("fmt")
  /\ wdoc' = Append(wdoc, Token("elem", CurOp.name, FormattedValue(CurOp)))
  /\ UNCHANGED <<wstate, wstack, locals>>
  /\ Advance

\* DICOM series, study, patient, equipment and image objects, the slice table.
LoadObjects ==
  /\ AtOp("load")
  /\ UNCHANGED <<writerVars, locals>>
  /\ Advance

EpiBranch ==
  /\ AtOp("epiBranch")
  /\ ppos' = IF session.lxData_.IsEpi THEN ppos + 1 ELSE AfterEpiBlock
  /\ UNCHANGED <<sessionVars, pc, gehdr, transformVars, error, writerVars, locals>>

CreateEpiControl ==
  /\ AtOp("epiControl")
  /\ UNCHANGED <<writerVars, locals>>
  /\ Advance

\* ArchiveStorage::Create(scanArchive_), whatever the container kind.
CreateArchiveStorage ==
  /\ AtOp("archiveStorage")
  /\ locals' = [locals EXCEPT !.archiveRead = TRUE, !.archive = session.scanArchive_]
  /\ UNCHANGED writerVars
  /\ Advance

\* scanArchive_ is a null pointer in a P-file session: using it may also end
\* the process.
NullArchiveCrash ==
  /\ AtOp("archiveStorage")
  /\ session.scanArchive_.kind = "Null"
  /\ proc' = "crashed"
  /\ UNCHANGED <<classname, session, lastAcq, callVars>>

ComputeRefViews ==
  /\ AtOp("refViews")
  /\ locals' = [locals EXCEPT !.ref_views =
                  RefViews(session.lxData_.ExtraFramesTop, session.lxData_.ExtraFramesBottom)]
  /\ UNCHANGED writerVars
  /\ Advance

\* A storage made from an archive reports the archive's control count; one
\* made from a null handle reports anything.
ComputeNumVolumes ==
  /\ AtOp("numVolumes")
  /\ \E count \in ControlCounts :
       /\ locals.archive.kind = "ScanArchive" => count = locals.archive.count
       /\ locals' = [locals EXCEPT !.controlCount = count,
                        !.num_volumes = NumVolumes(count, session.lxData_.NumSlices)]
  /\ UNCHANGED writerVars
  /\ Advance

\* endElement with only the root frame left is a fatal assertion.
WriterEndElement ==
  /\ AtOp("endElement")
  /\ IF Len(wstack) > 1
       THEN /\ wstack' = SubSeq(wstack, 1, Len(wstack) - 1)
            /\ wdoc' = Append(wdoc, Token("close", wstack[Len(wstack)], ""))
            /\ UNCHANGED <<wstate, locals>>
            /\ Advance
       ELSE /\ proc' = "crashed"
            /\ UNCHANGED <<classname, session, lastAcq, callVars>>

RECURSIVE ClosingTokens(_)
ClosingTokens(stack) ==
  IF Len(stack) <= 1 THEN <<>>
  ELSE <<Token("close", stack[Len(stack)], "")>> \o ClosingTokens(SubSeq(stack, 1, Len(stack) - 1))

\* endDocument on a balanced stack, or a writer that closes the elements
\* still open when the document ends (libxml2's text writer does).
WriterEndDocument ==
  /\ AtOp("endDocument")
  /\ wstate' = "Closed"
  /\ wstack' = <<Root>>
  /\ wdoc' = wdoc \o ClosingTokens(wstack)
  /\ UNCHANGED locals
  /\ Advance

\* endDocument as the design document has it: frames other than the root
\* make it fail with UnbalancedStructure.
WriterEndDocumentUnbalanced ==
  /\ AtOp("endDocument")
  /\ Len(wstack) > 1
  /\ UNCHANGED locals
  /\ ProjectionExit(ProjectionCatch("UnbalancedStructure", wdoc))

ReturnXML ==
  /\ AtOp("getXML")
  /\ UNCHANGED locals
  /\ ProjectionExit([thrown |-> FALSE, what |-> "", text |-> wdoc])

\* ---------------------------------------------- getIsmrmrdXMLHeader ----
StylesheetNeverChecked(sheet) == TRUE

\* if (stylesheet_.empty()) throw "No stylesheet configured."
StylesheetConfigured(sheet) == sheet # ""

\* Entry of getIsmrmrdXMLHeader: the stylesheet check, then ge_header_to_xml
\* is entered with a fresh XMLWriter.
BeginHeader ==
  /\ BetweenCalls
  /\ UNCHANGED <<writerVars, locals, gehdr, transformVars>>
  /\ IF StylesheetConfigured(session.stylesheet_)
       THEN /\ pc' = "projecting"
            /\ ppos' = 1
            /\ error' = ""
       ELSE /\ pc' = "failed"
            /\ ppos' = 0
            /\ error' = "No stylesheet configured."
  /\ UNCHANGED sessionVars

StageNames == <<"TemplateParse", "DocumentParse", "Apply", "Serialize">>
Stage(name, ok) == [stage |-> name, ok |-> ok]

EngineFailureIgnored(ok) == FALSE

\* The null / negative-result check after each engine call.
EngineFailed(ok) == ~ok

\* Handles owned by a std::shared_ptr with the engine's free function as deleter.
SharedPtrOwned == {"sheet", "pfile_doc", "result"}

\* xsltFreeStylesheet frees the compiled stylesheet and the document it was
\* compiled from; xmlFreeDoc frees one document.
FreedWith(h) == IF h = "sheet" THEN {"sheet", "stylesheet_doc"} ELSE {h}

Release(r, hs) == [h \in Handles |-> r[h] + (IF h \in hs THEN 1 ELSE 0)]

\* Leaving the function (return or exception): every shared_ptr that holds a
\* handle runs its deleter.
ScopeExit(a, r) ==
  [h \in Handles |->
     r[h] + Cardinality({o \in SharedPtrOwned : a[o] > 0 /\ h \in FreedWith(o)})]

NothingFreedOnXsltParseFailure == {}

\* catch block of the xsltParseStylesheetDoc step: xmlFreeDoc(stylesheet_doc).
FreedOnXsltParseFailure == {"stylesheet_doc"}

\* A stage throws std::runtime_error(prefix + what); the stack unwinds.
StageThrows(message, freed) ==
  /\ pc' = "failed"
  /\ error' = message
  /\ rel' = ScopeExit(acq, Release(rel, freed))
  /\ acq' = acq
  /\ output' = NoOutput

StageVars == <<sessionVars, ppos, writerVars, locals, gehdr>>

\* stylesheet_doc = xmlParseMemory(stylesheet_)
XmlParseStylesheet ==
  /\ pc = "xmlParseSheet" /\ proc = "running"
  /\ \E ok \in BOOLEAN :
       /\ stages' = Append(stages, Stage("TemplateParse", ok))
       /\ IF EngineFailed(ok)
            THEN StageThrows("Failed to parse stylesheet from memory: "
                               \o "Parsed stylesheet_doc is NULL.", {})
            ELSE /\ pc' = "xsltParseSheet"
                 /\ acq' = [acq EXCEPT !["stylesheet_doc"] = IF ok THEN @ + 1 ELSE @]
                 /\ UNCHANGED <<rel, error, output>>
  /\ UNCHANGED StageVars

\* sheet = shared_ptr(xsltParseStylesheetDoc(stylesheet_doc), xsltFreeStylesheet);
\* on failure the document stays with the caller.
XsltParseStylesheet ==
  /\ pc = "xsltParseSheet" /\ proc = "running"
  /\ \E ok \in BOOLEAN :
       /\ stages' = [stages EXCEPT ![Len(stages)].ok = @ /\ ok]
       /\ IF EngineFailed(ok)
            THEN StageThrows("Failed to create shared_ptr for stylesheet: "
                               \o "Failed to parse XSLT stylesheet.", FreedOnXsltParseFailure)
            ELSE /\ pc' = "parseDoc"
                 /\ acq' = [acq EXCEPT !["sheet"] = IF ok THEN @ + 1 ELSE @]
                 /\ UNCHANGED <<rel, error, output>>
  /\ UNCHANGED StageVars

\* pfile_doc = shared_ptr(xmlParseMemory(ge_raw_file_header), xmlFreeDoc)
ParseHeaderDocument ==
  /\ pc = "parseDoc" /\ proc = "running"
  /\ \E ok \in BOOLEAN :
       /\ stages' = Append(stages, Stage("DocumentParse", ok))
       /\ IF EngineFailed(ok)
            THEN StageThrows("Failed to parse P-File XML: "
                               \o "Failed to parse GE header XML.", {})
            ELSE /\ pc' = "apply"
                 /\ acq' = [acq EXCEPT !["pfile_doc"] = IF ok THEN @ + 1 ELSE @]
                 /\ UNCHANGED <<rel, error, output>>
  /\ UNCHANGED StageVars

\* result = shared_ptr(xsltApplyStylesheet(sheet, pfile_doc, params), xmlFreeDoc)
ApplyStylesheet ==
  /\ pc = "apply" /\ proc = "running"
  /\ \E ok \in BOOLEAN :
       /\ stages' = Append(stages, Stage("Apply", ok))
       /\ IF EngineFailed(ok)
            THEN StageThrows("Error applying stylesheet: "
                               \o "Failed to apply XSLT stylesheet to the document.", {})
            ELSE /\ pc' = "serialize"
                 /\ acq' = [acq EXCEPT !["result"] = IF ok THEN @ + 1 ELSE @]
                 /\ UNCHANGED <<rel, error, output>>
  /\ UNCHANGED StageVars

\* xsltSaveResultToString(&output, &len, result, sheet); a failed call leaves
\* output null.
SaveResultToString ==
  /\ pc = "serialize" /\ proc = "running"
  /\ \E ok \in BOOLEAN :
       /\ stages' = Append(stages, Stage("Serialize", ok))
       /\ IF EngineFailed(ok)
            THEN StageThrows("Error saving result to string: "
                               \o "Failed to save transformed XML to string.", {})
            ELSE /\ pc' = "serialized"
                 /\ acq' = [acq EXCEPT !["output"] = IF ok THEN @ + 1 ELSE @]
                 /\ UNCHANGED <<rel, error, output>>
  /\ UNCHANGED StageVars

\* The buffer is copied into the returned string and freed with xmlFree; the
\* shared_ptrs go out of scope.
ReturnHeader ==
  /\ pc = "serialized" /\ proc = "running"
  /\ pc' = "done"
  /\ output' = [present |-> acq["output"] > 0, sheet |-> session.stylesheet_, doc |-> gehdr]
  /\ rel' = ScopeExit(acq, Release(rel, {"output"}))
  /\ UNCHANGED <<acq, stages, error>>
  /\ UNCHANGED StageVars

\* The call has returned or thrown and the caller goes on: nothing of the
\* call's frame is left.
CallerContinues ==
  /\ HasSession
  /\ pc \in {"done", "failed", "acquired"}
  /\ pc' = "idle"
  /\ ppos' = 0
  /\ lastAcq' = NoAcq
  /\ locals' = NoLocals
  /\ gehdr' = <<>>
  /\ stages' = <<>>
  /\ acq' = NoHandles
  /\ rel' = NoHandles
  /\ error' = ""
  /\ output' = NoOutput
  /\ UNCHANGED <<proc, classname, session, writerVars>>

\* ---------------------------------------------------- specification ----
Next ==
  \/ \E in \in ConstructorInputs : Construct(in[1], in[2])
  \/ \E sheet \in Sheets : useStylesheetString(sheet)
  \/ \E filename \in SheetFiles : useStylesheetFilename(filename)
  \/ \E view_num \in ViewNumbers : getAcquisitions(view_num)
  \/ BeginHeader
  \/ FieldReadFails
  \/ WriterStartDocument
  \/ WriterStartElement
  \/ AddBooleanElement
  \/ FormatElement
  \/ LoadObjects
  \/ EpiBranch
  \/ CreateEpiControl
  \/ CreateArchiveStorage
  \/ NullArchiveCrash
  \/ ComputeRefViews
  \/ ComputeNumVolumes
  \/ WriterEndElement
  \/ WriterEndDocument
  \/ WriterEndDocumentUnbalanced
  \/ ReturnXML
  \/ XmlParseStylesheet
  \/ XsltParseStylesheet
  \/ ParseHeaderDocument
  \/ ApplyStylesheet
  \/ SaveResultToString
  \/ ReturnHeader
  \/ CallerContinues

Spec == Init /\ [][Next]_vars

\* ------------------------------------------------------- properties ----
KnownConverters == {"GenericConverter", "NIH2dfastConverter", "NIHepiConverter"}
SessionExists == session.rawObjectType_ # "none"

HasPrefix(text, prefix) ==
  Len(text) >= Len(prefix) /\ SubSeq(text, 1, Len(prefix)) = prefix

\* The transform stage an error message speaks of.
StageNamed(message) ==
  IF HasPrefix(message, "Failed to parse stylesheet from memory: ") THEN "TemplateParse"
  ELSE IF HasPrefix(message, "Failed to create shared_ptr for stylesheet: ") THEN "TemplateParse"
  ELSE IF HasPrefix(message, "Failed to parse P-File XML: ") THEN "DocumentParse"
  ELSE IF HasPrefix(message, "Error applying stylesheet: ") THEN "Apply"
  ELSE IF HasPrefix(message, "Error saving result to string: ") THEN "Serialize"
  ELSE "none"

ElementsNamed(doc, name) ==
  {i \in 1..Len(doc) : doc[i].t = "elem" /\ doc[i].name = name}
EpiBlockOpens(doc) == {i \in 1..Len(doc) : doc[i] = Token("open", "epiParameters", "")}
EpiBlockCloses(doc) == {i \in 1..Len(doc) : doc[i] = Token("close", "epiParameters", "")}
\* The block holds exactly one element of this name, with this text.
InEpiBlock(doc, name, text) ==
  \E o \in EpiBlockOpens(doc), c \in EpiBlockCloses(doc) :
    /\ o < c
    /\ \E k \in (o + 1)..(c - 1) : doc[k] = Token("elem", name, text)
    /\ Cardinality(ElementsNamed(doc, name) \cap ((o + 1)..(c - 1))) = 1

\* C1: when ge_header_to_xml reaches endDocument, every element it opened
\* with startElement has been closed, so the writer's frame stack holds only
\* the root frame.
C1_BalancedAtEndDocument == AtOp("endDocument") => wstack = <<Root>>

\* C2: the strategy is chosen by exact match of the class name against
\* GenericConverter, NIH2dfastConverter and NIHepiConverter; for any other
\* name construction ends the process, no session exists, and no projection,
\* transform or acquisition call is ever made.
C2_ExactStrategyMatch ==
  /\ SessionExists => classname \in KnownConverters /\ session.converter_ = classname
  /\ ~SessionExists =>
       /\ session = NoSession /\ pc = "idle" /\ ppos = 0 /\ wdoc = <<>>
       /\ gehdr = <<>> /\ stages = <<>> /\ lastAcq = NoAcq /\ ~output.present
  /\ proc = "exited" => classname \notin KnownConverters /\ ~SessionExists
  /\ (classname \notin KnownConverters /\ classname # "") => proc = "exited"

C2_Witness ==
  proc = "exited" /\ classname = "NoSuchConverter" /\ session = NoSession /\ pc = "idle"

\* C3: getIsmrmrdXMLHeader on a session whose stylesheet text is empty fails
\* with "No stylesheet configured." before the projection and before any
\* transform stage, and returns nothing.
C3_EmptyTemplateFailsFirst ==
  (SessionExists /\ session.stylesheet_ = "" /\ pc \notin {"idle", "acquired"}) =>
    /\ pc = "failed"
    /\ error = "No stylesheet configured."
    /\ ppos = 0 /\ wstate = "Empty" /\ wdoc = <<>> /\ gehdr = <<>>
    /\ stages = <<>> /\ acq = NoHandles /\ ~output.present

C3_Witness ==
  SessionExists /\ session.stylesheet_ = "" /\ pc = "failed"
    /\ error = "No stylesheet configured."

\* C4: the num_volumes element of an EPI projection holds the control count
\* the archive storage reported divided by NumSlices + 1, truncated; 300
\* control packets and 29 slices give 10.
C4_VolumeCount ==
  \A doc \in {wdoc, gehdr} : \A i \in ElementsNamed(doc, "num_volumes") :
    LET count == locals.controlCount
        slices == session.lxData_.NumSlices
    IN /\ session.lxData_.IsEpi
       /\ session.scanArchive_.kind = "ScanArchive" => count = session.scanArchive_.count
       /\ \E q \in 0..count :
            /\ q * (slices + 1) <= count
            /\ count < (q + 1) * (slices + 1)
            /\ doc[i].text = FormatD(q)
       /\ (count = 300 /\ slices = 29) => doc[i].text = "10"

C4_Witness ==
  /\ gehdr # <<>>
  /\ locals.controlCount = 300 /\ session.lxData_.NumSlices = 29
  /\ \E i \in ElementsNamed(gehdr, "num_volumes") : gehdr[i].text = "10"

\* C5: the document of a successful projection has an epiParameters block
\* exactly when the header is EPI, and the block then holds ExtraFramesTop
\* and ExtraFramesBottom as read, NumRefViews as their sum, and num_volumes.
C5_EpiBlock ==
  gehdr # <<>> =>
    /\ (EpiBlockOpens(gehdr) # {}) <=> session.lxData_.IsEpi
    /\ Cardinality(EpiBlockOpens(gehdr)) <= 1
    /\ session.lxData_.IsEpi =>
         /\ InEpiBlock(gehdr, "ExtraFramesTop", FormatD(session.lxData_.ExtraFramesTop))
         /\ InEpiBlock(gehdr, "ExtraFramesBottom", FormatD(session.lxData_.ExtraFramesBottom))
         /\ InEpiBlock(gehdr, "NumRefViews",
                       FormatD(session.lxData_.ExtraFramesTop + session.lxData_.ExtraFramesBottom))
         /\ InEpiBlock(gehdr, "num_volumes", FormatD(locals.num_volumes))

C5_Witness ==
  /\ session.lxData_.IsEpi
  /\ session.lxData_.ExtraFramesTop = 2 /\ session.lxData_.ExtraFramesBottom = 1
  /\ InEpiBlock(gehdr, "ExtraFramesTop", "2")
  /\ InEpiBlock(gehdr, "ExtraFramesBottom", "1")
  /\ InEpiBlock(gehdr, "NumRefViews", "3")

\* C6: the stages run in the order template parse, document parse, apply,
\* serialize, each at most once; a failed stage is the last one started, the
\* call then fails with no output and its message names that stage.
C6_StagesInOrder ==
  /\ Len(stages) <= Len(StageNames)
  /\ \A i \in 1..Len(stages) :
       /\ stages[i].stage = StageNames[i]
       /\ ~stages[i].ok =>
            /\ i = Len(stages)
            /\ pc = "failed"
            /\ ~output.present
            /\ StageNamed(error) = stages[i].stage
  /\ output.present => Len(stages) = Len(StageNames) /\ \A i \in 1..Len(stages) : stages[i].ok
  /\ pc = "done" => output.present

C6_Witness ==
  /\ pc = "failed" /\ Len(stages) = 3 /\ ~stages[3].ok
  /\ StageNamed(error) = "Apply" /\ ~output.present

\* C7: every native handle obtained during getIsmrmrdXMLHeader is released
\* exactly once by the time the call exits, and never more than once.
C7_HandlesReleasedOnce ==
  \A h \in Handles :
    /\ acq[h] <= 1
    /\ rel[h] <= acq[h]
    /\ pc \in {"done", "failed"} => rel[h] = acq[h]

C7_Witness ==
  /\ pc = "failed" /\ StageNamed(error) = "TemplateParse"
  /\ acq["stylesheet_doc"] = 1 /\ rel["stylesheet_doc"] = 1 /\ acq["sheet"] = 0

\* C8: a field read that fails at any position of the projection makes
\* getIsmrmrdXMLHeader fail with no document text, no transform stage started
\* and no header text returned.
C8_FieldReadFailureAborts ==
  locals.failedField # "" =>
    /\ pc = "failed"
    /\ HasPrefix(error, HeaderErrorPrefix \o "MissingField: " \o locals.failedField)
    /\ gehdr = <<>> /\ wdoc = <<>>
    /\ stages = <<>> /\ acq = NoHandles /\ ~output.present

C8_Witness ==
  /\ locals.failedField = "MultibandEnabled" /\ pc = "failed" /\ stages = <<>>

\* C9: the container kind is set at construction from the file and never
\* changes; getAcquisitions takes the strategy's ScanArchive path with
\* scanArchive_ for an archive session and its P-file path with pfile_
\* otherwise, for every view and every strategy.
C9_ContainerKindFixed ==
  [][ /\ SessionExists =>
           /\ session'.rawObjectType_ = session.rawObjectType_
           /\ session'.scanArchive_ = session.scanArchive_
           /\ session'.pfile_ = session.pfile_
           /\ session'.converter_ = session.converter_
      /\ session'.rawObjectType_ # "none" =>
           (session'.rawObjectType_ = "SCAN_ARCHIVE_RAW_TYPE") <=> session'.lxData_.isArchive
      /\ pc' = "acquired" =>
           /\ lastAcq'.converter = session'.converter_
           /\ IF session'.rawObjectType_ = "SCAN_ARCHIVE_RAW_TYPE"
                THEN /\ lastAcq'.path = "ScanArchive"
                     /\ lastAcq'.handle = session'.scanArchive_
                     /\ lastAcq'.handle.kind = "ScanArchive"
                ELSE /\ lastAcq'.path = "Pfile"
                     /\ lastAcq'.handle = session'.pfile_
                     /\ lastAcq'.handle.kind = "Pfile"
    ]_vars

C9_Witness ==
  /\ pc = "acquired" /\ lastAcq.path = "ScanArchive" /\ lastAcq.view = 1
  /\ lastAcq.converter = "NIH2dfastConverter"
  /\ session.rawObjectType_ = "SCAN_ARCHIVE_RAW_TYPE"

\* C10: whenever ge_header_to_xml reads scanArchive_ to build the archive
\* storage, the session is a ScanArchive session and the handle is set.
C10_ArchiveHandleInitialised ==
  AtOp("archiveStorage") =>
    /\ session.rawObjectType_ = "SCAN_ARCHIVE_RAW_TYPE"
    /\ session.scanArchive_.kind = "ScanArchive"

====
